---------------------------- MODULE Spec2Model ----------------------------
(***************************************************************************)
(* Model of the currency converter's offline rate cache (CacheManager in   *)
(* src/src/utils/cacheManager.js): the three localStorage keys it owns,    *)
(* the wall clock it reads, and its static methods; and of the             *)
(* connectivity mode controller (the useNetworkStatus hook), one instance  *)
(* per component that uses it; and of the application that uses both: the  *)
(* converter form's getExchangeRate, the full-table fetches it starts, and *)
(* App's conversion history.                                               *)
(*                                                                         *)
(* Conventions                                                             *)
(*   - A JavaScript value that may be null is Null or Val(v).              *)
(*   - localStorage is a function whose DOMAIN is the set of stored keys.  *)
(*   - A number is an exact rational <<n, d>> with d > 0 in lowest terms;  *)
(*     <<1, 0>> and <<-1, 0>> stand for +Infinity and -Infinity.           *)
(*   - The clock is in milliseconds, as Date.now() is.                     *)
(***************************************************************************)
EXTENDS Integers, Sequences, FiniteSets, TLC

VARIABLES localStorage, now, last, navigatorOnLine, hooks,
          form, tableFetches, conversionHistory, app

vars == <<localStorage, now, last, navigatorOnLine, hooks,
          form, tableFetches, conversionHistory, app>>

\* the state of the application around the cache: the converter form, the
\* full-table fetches in flight, the conversion history held by App and
\* the phase of App's startup
appVars == <<form, tableFetches, conversionHistory, app>>

\* the state of the connectivity mode controller (useNetworkStatus)
ctrlVars == <<navigatorOnLine, hooks>>

---------------------------------------------------------------------------
(* Program constants *)

CACHE_KEY == "currencyRatesCache"
LAST_UPDATE_KEY == "lastCacheUpdate"
OFFLINE_STATUS_KEY == "isOfflineMode"
CACHE_EXPIRY_HOURS == 24

\* const maxAge = CACHE_CONFIG.CACHE_EXPIRY_HOURS * 60 * 60 * 1000
maxAge == CACHE_EXPIRY_HOURS * 60 * 60 * 1000

---------------------------------------------------------------------------
(* Bounds of the model *)

\* the clock runs over MaxPeriods expiry windows ...
MaxPeriods == 1
\* ... and may advance millisecond by millisecond MaxJitter times in each
MaxJitter == 1

MaxNow == MaxPeriods * maxAge + MaxJitter

\* conversions kept in the history, and full-table fetches in flight
MaxHistory == 2
MaxTableFetches == 2

\* currency codes used for tables and queries (three of currencyCodes)
Codes == {"USD", "EUR", "INR"}
\* order in which a rate table's keys are written out
CodeOrder == <<"EUR", "INR", "USD">>
\* base currencies a table is saved for
Bases == {"USD", "EUR"}

---------------------------------------------------------------------------
(* JavaScript values *)

Null == [isNull |-> TRUE]
Val(v) == [isNull |-> FALSE, v |-> v]

Abs(n) == IF n < 0 THEN -n ELSE n

RECURSIVE GCD(_, _)
GCD(a, b) == IF b = 0 THEN a ELSE GCD(b, a % b)

\* the number n / d (d may be 0: n / 0 is an infinity in JavaScript)
Rat(n, d) ==
    IF d = 0 THEN <<(IF n < 0 THEN -1 ELSE 1), 0>>
    ELSE LET s == IF d < 0 THEN -1 ELSE 1
             g == GCD(Abs(n), Abs(d))
         IN  <<(s * n) \div g, (s * d) \div g>>

One == <<1, 1>>

\* a / b on numbers
Divide(a, b) == Rat(a[1] * b[2], a[2] * b[1])

\* a number used as a condition: 0 is falsy, every other number is truthy
Truthy(x) == x[1] # 0

\* `cache.rates[code]` used as a condition
HasTruthy(rates, code) == code \in DOMAIN rates /\ Truthy(rates[code])

---------------------------------------------------------------------------
(* Text conversions *)

Digit == <<"0", "1", "2", "3", "4", "5", "6", "7", "8", "9">>

DigitValue(c) == CHOOSE i \in 0..9 : Digit[i + 1] = c

IsDigit(c) == \E i \in 0..9 : Digit[i + 1] = c

\* Date.now().toString(): the decimal digits of a non-negative integer
RECURSIVE toString(_)
toString(n) ==
    IF n < 10 THEN <<Digit[n + 1]>>
    ELSE Append(toString(n \div 10), Digit[(n % 10) + 1])

NaN == [isNaN |-> TRUE]
Num(n) == [isNaN |-> FALSE, n |-> n]

RECURSIVE ParseDigits(_, _, _)
ParseDigits(s, i, acc) ==
    IF i > Len(s) \/ ~IsDigit(s[i]) THEN acc
    ELSE ParseDigits(s, i + 1, acc * 10 + DigitValue(s[i]))

\* parseInt(s): the leading decimal digits of s, NaN when there are none
parseInt(s) ==
    IF Len(s) = 0 \/ ~IsDigit(s[1]) THEN NaN ELSE Num(ParseDigits(s, 1, 0))

\* Date.now() - x, where x came from parseInt
Minus(t, x) == IF x.isNaN THEN NaN ELSE Num(t - x.n)

\* (variant) the window closes at 24 hours sharp: >= for >
GreaterOrEqual(x, y) == ~x.isNaN /\ x.n >= y

\* x > y: every comparison with NaN is false
GreaterThan(x, y) == ~x.isNaN /\ x.n > y

\* the keys of a rate table in the order they are written out
RatesKeys(rates) == SelectSeq(CodeOrder, LAMBDA c : c \in DOMAIN rates)

\* JSON.stringify(cacheData): the text of the snapshot object; the rate
\* table is written as a list of "code": number members
JSON_stringify(cacheData) ==
    [syntax       |-> "ok",
     rates        |-> [i \in 1..Len(RatesKeys(cacheData.rates)) |->
                          <<RatesKeys(cacheData.rates)[i],
                            cacheData.rates[RatesKeys(cacheData.rates)[i]]>>],
     baseCurrency |-> cacheData.baseCurrency,
     timestamp    |-> cacheData.timestamp,
     lastUpdate   |-> cacheData.lastUpdate]

\* a stored text that is not JSON (truncated or overwritten)
BadText ==
    [syntax |-> "bad", rates |-> <<>>, baseCurrency |-> "", timestamp |-> 0,
     lastUpdate |-> 0]

\* JSON.parse(text): the object, or a SyntaxError
JSON_parse(text) ==
    IF text.syntax # "ok" THEN [threw |-> TRUE]
    ELSE [threw |-> FALSE,
          obj   |-> [rates        |-> [c \in {text.rates[i][1] : i \in 1..Len(text.rates)} |->
                                         LET i == CHOOSE j \in 1..Len(text.rates) : text.rates[j][1] = c
                                         IN  text.rates[i][2]],
                     baseCurrency |-> text.baseCurrency,
                     timestamp    |-> text.timestamp,
                     lastUpdate   |-> text.lastUpdate]]

---------------------------------------------------------------------------
(* localStorage *)

getItem(st, k) == IF k \in DOMAIN st THEN Val(st[k]) ELSE Null

setItem(st, k, v) == [x \in DOMAIN st \cup {k} |-> IF x = k THEN v ELSE st[x]]

removeItem(st, k) == [x \in DOMAIN st \ {k} |-> st[x]]

EmptyStorage == [x \in {} |-> <<>>]

---------------------------------------------------------------------------
(* CacheManager: each method maps the storage (and the clock readings   *)
(* it takes) to the storage it leaves and the value it returns          *)

\* (variant) the new table is merged into the stored one, code by code
saveRatesToCache_Merge(st, ratesData, baseCurrency, t1, t2) ==
    LET old == IF CACHE_KEY \in DOMAIN st /\ ~JSON_parse(st[CACHE_KEY]).threw
               THEN JSON_parse(st[CACHE_KEY]).obj.rates
               ELSE [c \in {} |-> One]
        merged == [c \in DOMAIN old \cup DOMAIN ratesData |->
                      IF c \in DOMAIN ratesData THEN ratesData[c] ELSE old[c]]
        cacheData == [rates        |-> merged,
                      baseCurrency |-> baseCurrency,
                      timestamp    |-> t1,
                      lastUpdate   |-> t1]
        st1 == setItem(st, CACHE_KEY, JSON_stringify(cacheData))
        st2 == setItem(st1, LAST_UPDATE_KEY, toString(t2))
    IN  [st |-> st2, ret |-> Null]

\* saveRatesToCache(ratesData, baseCurrency); t1 and t2 are the clock
\* readings of lines 32-33 and of line 37
saveRatesToCache(st, ratesData, baseCurrency, t1, t2) ==
    LET cacheData == [rates        |-> ratesData,
                      baseCurrency |-> baseCurrency,
                      timestamp    |-> t1,
                      lastUpdate   |-> t1]
        st1 == setItem(st, CACHE_KEY, JSON_stringify(cacheData))
        st2 == setItem(st1, LAST_UPDATE_KEY, toString(t2))
    IN  [st |-> st2, ret |-> Null]

\* (variant) the offline-mode key is left in place
clearCache_KeepsOffline(st) ==
    [st  |-> removeItem(removeItem(st, CACHE_KEY), LAST_UPDATE_KEY),
     ret |-> Null]

\* (variant) the last-update key is left in place
clearCache_KeepsLastUpdate(st) ==
    [st  |-> removeItem(removeItem(st, CACHE_KEY), OFFLINE_STATUS_KEY),
     ret |-> Null]

\* (variant) only the offline-mode key is removed
clearCache_OfflineOnly(st) ==
    [st  |-> removeItem(st, OFFLINE_STATUS_KEY),
     ret |-> Null]

\* clearCache()
clearCache(st) ==
    [st  |-> removeItem(removeItem(removeItem(st, CACHE_KEY), LAST_UPDATE_KEY),
                        OFFLINE_STATUS_KEY),
     ret |-> Null]

\* (variant) the age of the snapshot is never checked
getCachedRates_NoExpiry(st, t) ==
    LET cachedData == getItem(st, CACHE_KEY)
        lastUpdate == getItem(st, LAST_UPDATE_KEY)
    IN  IF cachedData.isNull \/ lastUpdate.isNull \/ Len(lastUpdate.v) = 0
        THEN [st |-> st, ret |-> Null]
        ELSE LET parsed == JSON_parse(cachedData.v)
             IN  IF parsed.threw
                 THEN [st |-> st, ret |-> Null]
                 ELSE [st |-> st, ret |-> Val(parsed.obj)]

\* getCachedRates(); t is the clock reading of line 59
getCachedRates(st, t) ==
    LET cachedData == getItem(st, CACHE_KEY)
        lastUpdate == getItem(st, LAST_UPDATE_KEY)
    IN  IF cachedData.isNull \/ lastUpdate.isNull \/ Len(lastUpdate.v) = 0
        THEN [st |-> st, ret |-> Null]
        ELSE LET parsed == JSON_parse(cachedData.v)
             IN  IF parsed.threw
                 THEN [st |-> st, ret |-> Null]
                 ELSE LET cacheAge == Minus(t, parseInt(lastUpdate.v))
                      IN  IF GreaterThan(cacheAge, maxAge)
                          THEN [st |-> clearCache(st).st, ret |-> Null]
                          ELSE [st |-> st, ret |-> Val(parsed.obj)]

\* (variant) no case serves a currency asked against itself
ResolveRate_NoSelfRate(cache, fromCurrency, toCurrency) ==
    IF fromCurrency = toCurrency THEN Null
    ELSE IF cache.baseCurrency = fromCurrency /\ HasTruthy(cache.rates, toCurrency)
    THEN Val(cache.rates[toCurrency])
    ELSE IF cache.baseCurrency = toCurrency /\ HasTruthy(cache.rates, fromCurrency)
    THEN Val(Divide(One, cache.rates[fromCurrency]))
    ELSE IF HasTruthy(cache.rates, fromCurrency) /\ HasTruthy(cache.rates, toCurrency)
    THEN Val(Divide(cache.rates[toCurrency], cache.rates[fromCurrency]))
    ELSE Null

\* (variant) the reverse case returns the stored rate, not its inverse
ResolveRate_InverseAsDirect(cache, fromCurrency, toCurrency) ==
    IF cache.baseCurrency = fromCurrency /\ HasTruthy(cache.rates, toCurrency)
    THEN Val(cache.rates[toCurrency])
    ELSE IF cache.baseCurrency = toCurrency /\ HasTruthy(cache.rates, fromCurrency)
    THEN Val(cache.rates[fromCurrency])
    ELSE IF HasTruthy(cache.rates, fromCurrency) /\ HasTruthy(cache.rates, toCurrency)
    THEN Val(Divide(cache.rates[toCurrency], cache.rates[fromCurrency]))
    ELSE Null

\* (variant) the cross rate is taken the wrong way round
ResolveRate_CrossSwapped(cache, fromCurrency, toCurrency) ==
    IF cache.baseCurrency = fromCurrency /\ HasTruthy(cache.rates, toCurrency)
    THEN Val(cache.rates[toCurrency])
    ELSE IF cache.baseCurrency = toCurrency /\ HasTruthy(cache.rates, fromCurrency)
    THEN Val(Divide(One, cache.rates[fromCurrency]))
    ELSE IF HasTruthy(cache.rates, fromCurrency) /\ HasTruthy(cache.rates, toCurrency)
    THEN Val(Divide(cache.rates[fromCurrency], cache.rates[toCurrency]))
    ELSE Null

\* (variant) a code counts as cached when it is a key, whatever its value
ResolveRate_KeyPresence(cache, fromCurrency, toCurrency) ==
    IF cache.baseCurrency = fromCurrency /\ toCurrency \in DOMAIN cache.rates
    THEN Val(cache.rates[toCurrency])
    ELSE IF cache.baseCurrency = toCurrency /\ fromCurrency \in DOMAIN cache.rates
    THEN Val(Divide(One, cache.rates[fromCurrency]))
    ELSE IF fromCurrency \in DOMAIN cache.rates /\ toCurrency \in DOMAIN cache.rates
    THEN Val(Divide(cache.rates[toCurrency], cache.rates[fromCurrency]))
    ELSE Null

\* the three resolution cases of getCachedRate on a loaded snapshot
ResolveRate(cache, fromCurrency, toCurrency) ==
    IF cache.baseCurrency = fromCurrency /\ HasTruthy(cache.rates, toCurrency)
    THEN Val(cache.rates[toCurrency])
    ELSE IF cache.baseCurrency = toCurrency /\ HasTruthy(cache.rates, fromCurrency)
    THEN Val(Divide(One, cache.rates[fromCurrency]))
    ELSE IF HasTruthy(cache.rates, fromCurrency) /\ HasTruthy(cache.rates, toCurrency)
    THEN Val(Divide(cache.rates[toCurrency], cache.rates[fromCurrency]))
    ELSE Null

\* getCachedRate(fromCurrency, toCurrency)
getCachedRate(st, t, fromCurrency, toCurrency) ==
    LET r == getCachedRates(st, t)
    IN  IF r.ret.isNull
        THEN [st |-> r.st, ret |-> Null]
        ELSE [st |-> r.st, ret |-> ResolveRate(r.ret.v, fromCurrency, toCurrency)]

\* hasRate(fromCurrency, toCurrency)
hasRate(st, t, fromCurrency, toCurrency) ==
    LET r == getCachedRate(st, t, fromCurrency, toCurrency)
    IN  [st |-> r.st, ret |-> ~r.ret.isNull]

\* getCacheInfo(); t1 is the clock reading getCachedRates takes (line 59)
\* and t2 the one of line 145
getCacheInfo(st, t1, t2) ==
    LET lastUpdate == getItem(st, LAST_UPDATE_KEY)
        r == getCachedRates(st, t1)
        cache == r.ret
    IN  [st  |-> r.st,
         ret |-> [hasCache     |-> ~cache.isNull,
                  lastUpdate   |-> IF lastUpdate.isNull \/ Len(lastUpdate.v) = 0
                                   THEN Null ELSE Val(parseInt(lastUpdate.v)),
                  baseCurrency |-> IF cache.isNull THEN Null
                                   ELSE Val(cache.v.baseCurrency),
                  rateCount    |-> IF cache.isNull THEN 0
                                   ELSE Cardinality(DOMAIN cache.v.rates),
                  isExpired    |-> IF cache.isNull THEN TRUE
                                   ELSE GreaterThan(Minus(t2, parseInt(lastUpdate.v)), maxAge)]]

\* isOffline.toString()
BoolText(b) == IF b THEN "true" ELSE "false"

\* setOfflineStatus(isOffline)
setOfflineStatus(st, isOffline) ==
    [st |-> setItem(st, OFFLINE_STATUS_KEY, BoolText(isOffline)), ret |-> Null]

\* getOfflineStatus()
getOfflineStatus(st) ==
    LET status == getItem(st, OFFLINE_STATUS_KEY)
    IN  [st |-> st, ret |-> (~status.isNull /\ status.v = "true")]

---------------------------------------------------------------------------
(* CacheManager when a localStorage call throws (storage full, or access *)
(* to storage denied): fail is the number of the storage call of the     *)
(* method that throws, threw tells whether the method raises to its       *)
(* caller                                                                *)

\* saveRatesToCache: both setItem calls are inside the try block; what the
\* first one wrote stays written when the second one throws
saveRatesToCacheFaulty(st, ratesData, baseCurrency, t1, t2, fail) ==
    LET cacheData == [rates        |-> ratesData,
                      baseCurrency |-> baseCurrency,
                      timestamp    |-> t1,
                      lastUpdate   |-> t1]
        st1 == setItem(st, CACHE_KEY, JSON_stringify(cacheData))
    IN  IF fail = 1 THEN [st |-> st, ret |-> Null, threw |-> FALSE]
        ELSE [st |-> st1, ret |-> Null, threw |-> FALSE]

\* getCachedRates: the first getItem throws inside the try block
getCachedRatesFaulty(st, t) == [st |-> st, ret |-> Null, threw |-> FALSE]

\* getCachedRate: getCachedRates has returned null
getCachedRateFaulty(st, t, fromCurrency, toCurrency) ==
    LET r == getCachedRatesFaulty(st, t)
    IN  [st |-> r.st, ret |-> Null, threw |-> r.threw]

\* hasRate: getCachedRate has returned null
hasRateFaulty(st, t, fromCurrency, toCurrency) ==
    LET r == getCachedRateFaulty(st, t, fromCurrency, toCurrency)
    IN  [st |-> r.st, ret |-> ~r.ret.isNull, threw |-> r.threw]

\* clearCache: the first removeItem throws inside the try block
clearCacheFaulty(st) == [st |-> st, ret |-> Null, threw |-> FALSE]

\* getCacheInfo: the getItem of line 137 is outside any try block
getCacheInfoFaulty(st, t) == [st |-> st, ret |-> Null, threw |-> TRUE]

\* setOfflineStatus: setItem throws inside the try block
setOfflineStatusFaulty(st, isOffline) == [st |-> st, ret |-> Null, threw |-> FALSE]

\* getOfflineStatus: getItem throws inside the try block
getOfflineStatusFaulty(st) == [st |-> st, ret |-> FALSE, threw |-> FALSE]

---------------------------------------------------------------------------
(* useNetworkStatus: the state of one instance of the hook is isOnline  *)
(* and isOfflineMode; its handlers map that state and the storage to     *)
(* the state and storage they leave                                      *)

\* the components that call useNetworkStatus, in the order App renders
\* them (and so in the order their listeners are registered)
InstanceOrder == <<"OfflineIndicator", "ConverterForm">>

Instances == {InstanceOrder[k] : k \in 1..Len(InstanceOrder)}

\* a component that is not mounted has no hook state and no listeners
Unmounted == [mounted |-> FALSE, isOnline |-> FALSE, isOfflineMode |-> FALSE]

\* (variant) the persisted flag is not read at startup
useNetworkStatus_StartsOnline(st, onLine) ==
    [mounted       |-> TRUE,
     isOnline      |-> onLine,
     isOfflineMode |-> FALSE]

\* first render and effect: useState(navigator.onLine),
\* useState(CacheManager.getOfflineStatus()), listeners registered
useNetworkStatus(st, onLine) ==
    [mounted       |-> TRUE,
     isOnline      |-> onLine,
     isOfflineMode |-> getOfflineStatus(st).ret]

\* (variant) auto-recovery does not look at the persisted flag
handleOnline_IgnoresFlag(h, st) ==
    [st   |-> st,
     hook |-> [h EXCEPT !.isOnline = TRUE, !.isOfflineMode = FALSE]]

\* handleOnline: the 'online' event listener
handleOnline(h, st) ==
    [st   |-> st,
     hook |-> [h EXCEPT !.isOnline = TRUE,
                        !.isOfflineMode = IF ~getOfflineStatus(st).ret THEN FALSE ELSE @]]

\* (variant) the mode flag is not persisted
handleOffline_NoPersist(h, st) ==
    [st   |-> st,
     hook |-> [h EXCEPT !.isOnline = FALSE, !.isOfflineMode = TRUE]]

\* handleOffline: the 'offline' event listener
handleOffline(h, st) ==
    [st   |-> setOfflineStatus(st, TRUE).st,
     hook |-> [h EXCEPT !.isOnline = FALSE, !.isOfflineMode = TRUE]]

\* (variant) the old mode is persisted instead of the new one
toggleOfflineMode_PersistsOld(h, st) ==
    LET newOfflineMode == ~h.isOfflineMode
    IN  [st   |-> setOfflineStatus(st, h.isOfflineMode).st,
         hook |-> [h EXCEPT !.isOfflineMode = newOfflineMode],
         ret  |-> Null]

\* toggleOfflineMode(); it returns nothing
toggleOfflineMode(h, st) ==
    LET newOfflineMode == ~h.isOfflineMode
    IN  [st   |-> setOfflineStatus(st, newOfflineMode).st,
         hook |-> [h EXCEPT !.isOfflineMode = newOfflineMode],
         ret  |-> Null]

\* (variant) the exit is applied without looking at isOnline
exitOfflineMode_Unconditional(h, st) ==
    [st   |-> setOfflineStatus(st, FALSE).st,
     hook |-> [h EXCEPT !.isOfflineMode = FALSE],
     ret  |-> Null]

\* exitOfflineMode(); it returns nothing on either path
exitOfflineMode(h, st) ==
    IF h.isOnline
    THEN [st   |-> setOfflineStatus(st, FALSE).st,
          hook |-> [h EXCEPT !.isOfflineMode = FALSE],
          ret  |-> Null]
    ELSE [st |-> st, hook |-> h, ret |-> Null]

\* (variant) the cleanup does not remove the listeners
Listening_AfterCleanup(h) == TRUE

\* the instance's two listeners are registered: from its effect (lines
\* 253-254) until the effect's cleanup (lines 257-260)
Listening(h) == h.mounted

\* window dispatches 'offline': the listeners of the mounted instances run
\* one after the other, from instance number k on
RECURSIVE DispatchOffline(_, _, _)
DispatchOffline(st, hs, k) ==
    IF k > Len(InstanceOrder) THEN [st |-> st, hooks |-> hs]
    ELSE LET i == InstanceOrder[k]
             r == handleOffline(hs[i], st)
         IN  IF Listening(hs[i])
             THEN DispatchOffline(r.st, [hs EXCEPT ![i] = r.hook], k + 1)
             ELSE DispatchOffline(st, hs, k + 1)

\* window dispatches 'online'
RECURSIVE DispatchOnline(_, _, _)
DispatchOnline(st, hs, k) ==
    IF k > Len(InstanceOrder) THEN [st |-> st, hooks |-> hs]
    ELSE LET i == InstanceOrder[k]
             r == handleOnline(hs[i], st)
         IN  IF Listening(hs[i])
             THEN DispatchOnline(r.st, [hs EXCEPT ![i] = r.hook], k + 1)
             ELSE DispatchOnline(st, hs, k + 1)

---------------------------------------------------------------------------
(* App and ConverterForm: state *)

\* no conversion is waiting for its live pair fetch
NoRequest == [active |-> FALSE]

\* the result line: which of the form's texts it shows and, for the two
\* conversion texts, the converted amount printed in it
ResultText(kind, converted) == [kind |-> kind, converted |-> converted]

\* ConverterForm's state at mount: result "" and isLoading false
NoResult == ResultText("", Null)

FormAtMount == [isLoading |-> FALSE, result |-> NoResult, request |-> NoRequest]

\* App is not running (before the page is opened, or between a close and
\* the next start)
AppDown == [phase |-> "down", loaded |-> Null]

---------------------------------------------------------------------------
(* App and ConverterForm: the functions *)

HISTORY_KEY == "conversionHistory"

\* JSON.stringify(conversionHistory): the text of an array
History_stringify(history) == [syntax |-> "ok", items |-> history]

\* JSON.parse(savedHistory)
History_parse(text) ==
    IF text.syntax # "ok" THEN [threw |-> TRUE]
    ELSE [threw |-> FALSE, obj |-> text.items]

\* a * b on numbers
Times(a, b) == Rat(a[1] * b[1], a[2] * b[2])

\* (rate * amount).toFixed(2); rate is undefined (Null) when the response
\* carried none: the text "NaN", "Infinity", or the amount in hundredths
\* rounded half away from zero
toFixed2(rate, amount) ==
    IF rate.isNull THEN [kind |-> "NaN", cents |-> 0]
    ELSE LET x == Times(rate.v, amount)
         IN  IF x[2] = 0 THEN [kind |-> "Infinity", cents |-> x[1]]
             ELSE [kind  |-> "number",
                   cents |-> (IF x[1] < 0 THEN -1 ELSE 1) *
                             ((200 * Abs(x[1]) + x[2]) \div (2 * x[2]))]

\* `if (rate)` on the value getCachedRate returned
RateFound(rate) == ~rate.isNull /\ Truthy(rate.v)

\* conversionData (ConverterForm lines 148-157); t is the clock reading
conversionData(t, amount, fromCurrency, toCurrency, rate, resultText, isFromCache) ==
    [id           |-> t,
     amount       |-> amount,
     fromCurrency |-> fromCurrency,
     toCurrency   |-> toCurrency,
     result       |-> toFixed2(rate, amount),
     timestamp    |-> t,
     fullText     |-> resultText,
     isFromCache  |-> isFromCache]

\* (variant) the branch without cached rate leaves the loading state set
FromCache_StaysLoading(f, st, t, amount, fromCurrency, toCurrency, errorKind) ==
    LET r == getCachedRate(st, t, fromCurrency, toCurrency)
        resultText == ResultText("cached", Val(toFixed2(r.ret, amount)))
    IN  IF RateFound(r.ret)
        THEN [form  |-> [isLoading |-> FALSE, result |-> resultText, request |-> NoRequest],
              st    |-> r.st,
              added |-> Val(conversionData(t, amount, fromCurrency, toCurrency,
                                           r.ret, resultText, TRUE)),
              fetch |-> Null]
        ELSE [form  |-> [isLoading |-> TRUE, result |-> ResultText(errorKind, Null),
                         request |-> NoRequest],
              st    |-> r.st,
              added |-> Null,
              fetch |-> Null]

\* the cache branch of getExchangeRate (lines 99-106 and 131-138, with the
\* catch of lines 166-176): errorKind is the text the catch block shows
FromCache(f, st, t, amount, fromCurrency, toCurrency, errorKind) ==
    LET r == getCachedRate(st, t, fromCurrency, toCurrency)
        resultText == ResultText("cached", Val(toFixed2(r.ret, amount)))
    IN  IF RateFound(r.ret)
        THEN [form  |-> [isLoading |-> FALSE, result |-> resultText, request |-> NoRequest],
              st    |-> r.st,
              added |-> Val(conversionData(t, amount, fromCurrency, toCurrency,
                                           r.ret, resultText, TRUE)),
              fetch |-> Null]
        ELSE [form  |-> [isLoading |-> FALSE, result |-> ResultText(errorKind, Null),
                         request |-> NoRequest],
              st    |-> r.st,
              added |-> Null,
              fetch |-> Null]

\* getExchangeRate(true) up to its first await: in offline mode the whole
\* call; otherwise the live pair fetch is issued and the call waits
getExchangeRate(f, isOfflineMode, st, t, amount, fromCurrency, toCurrency) ==
    IF f.isLoading THEN [form |-> f, st |-> st, added |-> Null, fetch |-> Null]
    ELSE IF isOfflineMode
    THEN FromCache(f, st, t, amount, fromCurrency, toCurrency, "noCached")
    ELSE [form  |-> [f EXCEPT !.isLoading = TRUE,
                              !.request = [active |-> TRUE, amount |-> amount,
                                           fromCurrency |-> fromCurrency,
                                           toCurrency |-> toCurrency]],
          st    |-> st,
          added |-> Null,
          fetch |-> Null]

\* the live pair fetch failed: it rejected, or the response was not ok
PairFailed(response) == response.rejected \/ ~response.ok

\* (variant) a failed live fetch ends in the error without asking the cache
getExchangeRateResumes_NoFallback(f, st, t, response) ==
    LET q == f.request
        resultText == ResultText("rate", Val(toFixed2(response.conversion_rate, q.amount)))
    IN  IF PairFailed(response)
        THEN [form  |-> [isLoading |-> FALSE, result |-> ResultText("wrong", Null),
                         request |-> NoRequest],
              st    |-> st,
              added |-> Null,
              fetch |-> Null]
        ELSE [form  |-> [isLoading |-> FALSE, result |-> resultText, request |-> NoRequest],
              st    |-> st,
              added |-> Val(conversionData(t, q.amount, q.fromCurrency, q.toCurrency,
                                           response.conversion_rate, resultText, FALSE)),
              fetch |-> Val(q.fromCurrency)]

\* getExchangeRate from the await of line 113 on, when the live pair fetch
\* has settled with response: fetch is the base of the full-table fetch
\* started at line 122
getExchangeRateResumes(f, st, t, response) ==
    LET q == f.request
        resultText == ResultText("rate", Val(toFixed2(response.conversion_rate, q.amount)))
    IN  IF PairFailed(response)
        THEN FromCache(f, st, t, q.amount, q.fromCurrency, q.toCurrency, "wrong")
        ELSE [form  |-> [isLoading |-> FALSE, result |-> resultText, request |-> NoRequest],
              st    |-> st,
              added |-> Val(conversionData(t, q.amount, q.fromCurrency, q.toCurrency,
                                           response.conversion_rate, resultText, FALSE)),
              fetch |-> Val(q.fromCurrency)]

\* (variant) the response's result field is not looked at
fetchAndCacheAllRates_SavesAnyTable(st, response, baseCurrency, t1, t2) ==
    IF response.rejected \/ ~response.ok THEN [st |-> st, ret |-> FALSE]
    ELSE IF ~response.conversion_rates.isNull
    THEN [st  |-> saveRatesToCache(st, response.conversion_rates.v, baseCurrency, t1, t2).st,
          ret |-> TRUE]
    ELSE [st |-> st, ret |-> FALSE]

\* (variant) a stored snapshot is not overwritten
fetchAndCacheAllRates_FirstWins(st, response, baseCurrency, t1, t2) ==
    IF response.rejected \/ ~response.ok THEN [st |-> st, ret |-> FALSE]
    ELSE IF response.result = "success" /\ ~response.conversion_rates.isNull
    THEN [st  |-> IF CACHE_KEY \in DOMAIN st THEN st
                  ELSE saveRatesToCache(st, response.conversion_rates.v, baseCurrency, t1, t2).st,
          ret |-> TRUE]
    ELSE [st |-> st, ret |-> FALSE]

\* fetchAndCacheAllRates(baseCurrency, apiKey) from the await of line 184
\* on, when the fetch has settled with response; t1 and t2 are the clock
\* readings saveRatesToCache takes
fetchAndCacheAllRates(st, response, baseCurrency, t1, t2) ==
    IF response.rejected \/ ~response.ok THEN [st |-> st, ret |-> FALSE]
    ELSE IF response.result = "success" /\ ~response.conversion_rates.isNull
    THEN [st  |-> saveRatesToCache(st, response.conversion_rates.v, baseCurrency, t1, t2).st,
          ret |-> TRUE]
    ELSE [st |-> st, ret |-> FALSE]

\* OfflineIndicator's render: line 20 calls getCacheInfo, which reads the
\* cache (and purges it when it has expired)
RenderIndicator(st, t) == getCacheInfo(st, t, t).st

\* addToHistory(conversion): the state App holds after the update
addToHistory(history, conversion) == <<conversion>> \o history

\* the save effect (App lines 68-71)
SaveHistory(st, history) == setItem(st, HISTORY_KEY, History_stringify(history))

\* the load effect (App lines 40-60): the history it hands to
\* setConversionHistory, if any, and the storage it leaves
LoadHistory(st) ==
    LET savedHistory == getItem(st, HISTORY_KEY)
    IN  IF savedHistory.isNull THEN [st |-> st, loaded |-> Null]
        ELSE IF History_parse(savedHistory.v).threw
        THEN [st |-> removeItem(st, HISTORY_KEY), loaded |-> Null]
        ELSE [st |-> st, loaded |-> Val(History_parse(savedHistory.v).obj)]

\* clearHistory's localStorage.clear()
clear(st) == EmptyStorage

---------------------------------------------------------------------------
(* Inputs *)

\* a well-formed table for base USD: no entry for the base itself
TableValid == ("EUR" :> <<1, 2>>) @@ ("INR" :> <<4, 1>>)
\* a table that lists USD too, as the rates service does for its base
TableWithBase == ("USD" :> <<1, 1>>) @@ ("EUR" :> <<2, 1>>)
\* tables with an invalid entry
TableZero == ("EUR" :> <<0, 1>>) @@ ("INR" :> <<4, 1>>)
TableNegative == ("EUR" :> <<-2, 1>>) @@ ("INR" :> <<4, 1>>)

SampleTables == {TableValid, TableWithBase, TableZero, TableNegative}

\* what the user enters in the form: the amount and the two currencies
Amounts == {<<2, 1>>}
FormPairs == {<<"USD", "INR">>, <<"EUR", "USD">>}

\* how the live pair fetch settles: it rejects, the response is not ok, it
\* carries conversion_rate, or it is ok and carries none
PairResponse(rejected, ok, conversion_rate) ==
    [rejected |-> rejected, ok |-> ok, conversion_rate |-> conversion_rate]

PairResponses ==
    {PairResponse(TRUE, FALSE, Null), PairResponse(FALSE, FALSE, Null),
     PairResponse(FALSE, TRUE, Val(<<4, 1>>)), PairResponse(FALSE, TRUE, Null)}

\* how a full-table fetch settles
TableResponse(rejected, ok, result, conversion_rates) ==
    [rejected |-> rejected, ok |-> ok, result |-> result,
     conversion_rates |-> conversion_rates]

TableResponses ==
    {TableResponse(TRUE, FALSE, "", Null), TableResponse(FALSE, FALSE, "", Null),
     TableResponse(FALSE, TRUE, "error", Null),
     TableResponse(FALSE, TRUE, "error", Val(TableValid)),
     TableResponse(FALSE, TRUE, "success", Val(TableValid)),
     TableResponse(FALSE, TRUE, "success", Val(TableWithBase))}

---------------------------------------------------------------------------
(* The record of the last call: the method, its arguments, the clock   *)
(* reading it took, the storage it found and the value it returned      *)

NoArgs == [none |-> TRUE]

Call(op, args, at, pre, ret) ==
    [op |-> op, args |-> args, at |-> at, pre |-> pre, ret |-> ret,
     threw |-> FALSE, fail |-> 0]

\* the same for a call during which storage call number fail threw; r is
\* the outcome of the method
CallFaulty(op, args, at, pre, r, fail) ==
    [op |-> op, args |-> args, at |-> at, pre |-> pre, ret |-> r.ret,
     threw |-> r.threw, fail |-> fail]

\* the clock may advance by one millisecond
CanJitter == (now % maxAge) < MaxJitter

---------------------------------------------------------------------------
(* State machine *)

\* a fresh browser profile: nothing stored
Init ==
    /\ localStorage = EmptyStorage
    /\ now = 0
    /\ last = Call("init", NoArgs, 0, EmptyStorage, Null)
    /\ navigatorOnLine = TRUE
    /\ hooks = [i \in Instances |-> Unmounted]
    /\ form = FormAtMount
    /\ tableFetches = <<>>
    /\ conversionHistory = <<>>
    /\ app = AppDown

\* time passes: one millisecond, or one whole expiry window
Tick ==
    /\ \E delta \in {1, maxAge} :
          /\ delta = 1 => CanJitter
          /\ now + delta <= MaxNow
          /\ now' = now + delta
    /\ last' = Call("Tick", NoArgs, now', localStorage, Null)
    /\ UNCHANGED <<localStorage, ctrlVars, appVars>>

SaveRatesToCache ==
    \E ratesData \in SampleTables, baseCurrency \in Bases, d \in {0, 1} :
        /\ d = 1 => CanJitter
        /\ LET r == saveRatesToCache(localStorage, ratesData, baseCurrency, now, now + d)
           IN  /\ localStorage' = r.st
               /\ last' = Call("saveRatesToCache",
                               [ratesData |-> ratesData, baseCurrency |-> baseCurrency],
                               now, localStorage, r.ret)
        /\ now' = now + d
        /\ UNCHANGED <<ctrlVars, appVars>>

GetCachedRates ==
    LET r == getCachedRates(localStorage, now)
    IN  /\ localStorage' = r.st
        /\ last' = Call("getCachedRates", NoArgs, now, localStorage, r.ret)
        /\ UNCHANGED <<now, ctrlVars, appVars>>

GetCachedRate ==
    \E fromCurrency \in Codes, toCurrency \in Codes :
        LET r == getCachedRate(localStorage, now, fromCurrency, toCurrency)
        IN  /\ localStorage' = r.st
            /\ last' = Call("getCachedRate",
                            [fromCurrency |-> fromCurrency, toCurrency |-> toCurrency],
                            now, localStorage, r.ret)
            /\ UNCHANGED <<now, ctrlVars, appVars>>

HasRate ==
    \E fromCurrency \in Codes, toCurrency \in Codes :
        LET r == hasRate(localStorage, now, fromCurrency, toCurrency)
        IN  /\ localStorage' = r.st
            /\ last' = Call("hasRate",
                            [fromCurrency |-> fromCurrency, toCurrency |-> toCurrency],
                            now, localStorage, r.ret)
            /\ UNCHANGED <<now, ctrlVars, appVars>>

ClearCache ==
    LET r == clearCache(localStorage)
    IN  /\ localStorage' = r.st
        /\ last' = Call("clearCache", NoArgs, now, localStorage, r.ret)
        /\ UNCHANGED <<now, ctrlVars, appVars>>

GetCacheInfo ==
    \E d \in {0, 1} :
        /\ d = 1 => CanJitter
        /\ LET r == getCacheInfo(localStorage, now, now + d)
           IN  /\ localStorage' = r.st
               /\ last' = Call("getCacheInfo", NoArgs, now, localStorage, r.ret)
        /\ now' = now + d
        /\ UNCHANGED <<ctrlVars, appVars>>

SetOfflineStatus ==
    \E isOffline \in BOOLEAN :
        LET r == setOfflineStatus(localStorage, isOffline)
        IN  /\ localStorage' = r.st
            /\ last' = Call("setOfflineStatus", [isOffline |-> isOffline],
                            now, localStorage, r.ret)
            /\ UNCHANGED <<now, ctrlVars, appVars>>

GetOfflineStatus ==
    LET r == getOfflineStatus(localStorage)
    IN  /\ localStorage' = r.st
        /\ last' = Call("getOfflineStatus", NoArgs, now, localStorage, r.ret)
        /\ UNCHANGED <<now, ctrlVars, appVars>>

Next ==
    \/ Tick
    \/ SaveRatesToCache
    \/ GetCachedRates
    \/ GetCachedRate
    \/ HasRate
    \/ ClearCache
    \/ GetCacheInfo
    \/ SetOfflineStatus
    \/ GetOfflineStatus

Spec == Init /\ [][Next]_vars

---------------------------------------------------------------------------
(* Storage changed from outside the cache manager (another script of the *)
(* page, the browser's developer tools, an interrupted write)            *)

\* the text of a last-update value that is not a number
NotANumber == <<"x">>

\* the snapshot value is overwritten by text that is not JSON
CorruptSnapshot ==
    /\ CACHE_KEY \in DOMAIN localStorage
    /\ localStorage[CACHE_KEY].syntax = "ok"
    /\ localStorage' = setItem(localStorage, CACHE_KEY, BadText)
    /\ last' = Call("CorruptSnapshot", NoArgs, now, localStorage, Null)
    /\ UNCHANGED <<now, ctrlVars, appVars>>

\* the last-update value is overwritten by text that is not a number
CorruptLastUpdate ==
    /\ LAST_UPDATE_KEY \in DOMAIN localStorage
    /\ localStorage[LAST_UPDATE_KEY] # NotANumber
    /\ localStorage' = setItem(localStorage, LAST_UPDATE_KEY, NotANumber)
    /\ last' = Call("CorruptLastUpdate", NoArgs, now, localStorage, Null)
    /\ UNCHANGED <<now, ctrlVars, appVars>>

NextCorrupt ==
    \/ Next
    \/ CorruptSnapshot
    \/ CorruptLastUpdate

SpecCorrupt == Init /\ [][NextCorrupt]_vars

---------------------------------------------------------------------------
(* The methods called while a localStorage call throws *)

SaveRatesToCacheFaulty ==
    \E ratesData \in SampleTables, baseCurrency \in Bases, fail \in {1, 2} :
        LET r == saveRatesToCacheFaulty(localStorage, ratesData, baseCurrency, now, now, fail)
        IN  /\ localStorage' = r.st
            /\ last' = CallFaulty("saveRatesToCache",
                                  [ratesData |-> ratesData, baseCurrency |-> baseCurrency],
                                  now, localStorage, r, fail)
            /\ UNCHANGED <<now, ctrlVars, appVars>>

GetCachedRatesFaulty ==
    LET r == getCachedRatesFaulty(localStorage, now)
    IN  /\ localStorage' = r.st
        /\ last' = CallFaulty("getCachedRates", NoArgs, now, localStorage, r, 1)
        /\ UNCHANGED <<now, ctrlVars, appVars>>

GetCachedRateFaulty ==
    \E fromCurrency \in Codes, toCurrency \in Codes :
        LET r == getCachedRateFaulty(localStorage, now, fromCurrency, toCurrency)
        IN  /\ localStorage' = r.st
            /\ last' = CallFaulty("getCachedRate",
                                  [fromCurrency |-> fromCurrency, toCurrency |-> toCurrency],
                                  now, localStorage, r, 1)
            /\ UNCHANGED <<now, ctrlVars, appVars>>

HasRateFaulty ==
    \E fromCurrency \in Codes, toCurrency \in Codes :
        LET r == hasRateFaulty(localStorage, now, fromCurrency, toCurrency)
        IN  /\ localStorage' = r.st
            /\ last' = CallFaulty("hasRate",
                                  [fromCurrency |-> fromCurrency, toCurrency |-> toCurrency],
                                  now, localStorage, r, 1)
            /\ UNCHANGED <<now, ctrlVars, appVars>>

ClearCacheFaulty ==
    LET r == clearCacheFaulty(localStorage)
    IN  /\ localStorage' = r.st
        /\ last' = CallFaulty("clearCache", NoArgs, now, localStorage, r, 1)
        /\ UNCHANGED <<now, ctrlVars, appVars>>

GetCacheInfoFaulty ==
    LET r == getCacheInfoFaulty(localStorage, now)
    IN  /\ localStorage' = r.st
        /\ last' = CallFaulty("getCacheInfo", NoArgs, now, localStorage, r, 1)
        /\ UNCHANGED <<now, ctrlVars, appVars>>

SetOfflineStatusFaulty ==
    \E isOffline \in BOOLEAN :
        LET r == setOfflineStatusFaulty(localStorage, isOffline)
        IN  /\ localStorage' = r.st
            /\ last' = CallFaulty("setOfflineStatus", [isOffline |-> isOffline],
                                  now, localStorage, r, 1)
            /\ UNCHANGED <<now, ctrlVars, appVars>>

GetOfflineStatusFaulty ==
    LET r == getOfflineStatusFaulty(localStorage)
    IN  /\ localStorage' = r.st
        /\ last' = CallFaulty("getOfflineStatus", NoArgs, now, localStorage, r, 1)
        /\ UNCHANGED <<now, ctrlVars, appVars>>

NextFaulty ==
    \/ NextCorrupt
    \/ SaveRatesToCacheFaulty
    \/ GetCachedRatesFaulty
    \/ GetCachedRateFaulty
    \/ HasRateFaulty
    \/ ClearCacheFaulty
    \/ GetCacheInfoFaulty
    \/ SetOfflineStatusFaulty
    \/ GetOfflineStatusFaulty

SpecFaulty == Init /\ [][NextFaulty]_vars

---------------------------------------------------------------------------
(* The connectivity mode controller *)

\* the instance whose toggleOfflineMode and exitOfflineMode are bound to
\* buttons
Indicator == "OfflineIndicator"

\* what a controller step found: the storage, the hook instances and the
\* connectivity signal, and the same for the step before it
ControllerOps ==
    {"Mount", "Unmount", "NetworkLost", "NetworkRestored",
     "toggleOfflineMode", "exitOfflineMode"}

Current ==
    [localStorage |-> localStorage, hooks |-> hooks, navigatorOnLine |-> navigatorOnLine]

Found ==
    [cur    |-> Current,
     prevOp |-> last.op,
     prev   |-> IF last.op \in ControllerOps THEN last.pre.cur ELSE Current]

\* a component mounts
Mount ==
    \E i \in Instances :
        /\ ~hooks[i].mounted
        /\ hooks' = [hooks EXCEPT ![i] = useNetworkStatus(localStorage, navigatorOnLine)]
        /\ last' = Call("Mount", [instance |-> i], now, Found, Null)
        /\ UNCHANGED <<localStorage, now, navigatorOnLine, appVars>>

\* a component unmounts: the effect's cleanup removes its listeners
Unmount ==
    \E i \in Instances :
        /\ hooks[i].mounted
        /\ hooks' = [hooks EXCEPT ![i] = Unmounted]
        /\ last' = Call("Unmount", [instance |-> i], now, Found, Null)
        /\ UNCHANGED <<localStorage, now, navigatorOnLine, appVars>>

\* the browser loses its connection and fires 'offline'
NetworkLost ==
    /\ navigatorOnLine
    /\ navigatorOnLine' = FALSE
    /\ LET r == DispatchOffline(localStorage, hooks, 1)
       IN  /\ localStorage' = r.st
           /\ hooks' = r.hooks
    /\ last' = Call("NetworkLost", NoArgs, now, Found, Null)
    /\ UNCHANGED <<now, appVars>>

\* the browser regains its connection and fires 'online'
NetworkRestored ==
    /\ ~navigatorOnLine
    /\ navigatorOnLine' = TRUE
    /\ LET r == DispatchOnline(localStorage, hooks, 1)
       IN  /\ localStorage' = r.st
           /\ hooks' = r.hooks
    /\ last' = Call("NetworkRestored", NoArgs, now, Found, Null)
    /\ UNCHANGED <<now, appVars>>

ToggleOfflineMode ==
    /\ hooks[Indicator].mounted
    /\ LET r == toggleOfflineMode(hooks[Indicator], localStorage)
       IN  /\ localStorage' = r.st
           /\ hooks' = [hooks EXCEPT ![Indicator] = r.hook]
           /\ last' = Call("toggleOfflineMode", NoArgs, now, Found, r.ret)
    /\ UNCHANGED <<now, navigatorOnLine, appVars>>

ExitOfflineMode ==
    /\ hooks[Indicator].mounted
    /\ LET r == exitOfflineMode(hooks[Indicator], localStorage)
       IN  /\ localStorage' = r.st
           /\ hooks' = [hooks EXCEPT ![Indicator] = r.hook]
           /\ last' = Call("exitOfflineMode", NoArgs, now, Found, r.ret)
    /\ UNCHANGED <<now, navigatorOnLine, appVars>>

NextController ==
    \/ Mount
    \/ Unmount
    \/ NetworkLost
    \/ NetworkRestored
    \/ ToggleOfflineMode
    \/ ExitOfflineMode

SpecController == Init /\ [][NextController]_vars

---------------------------------------------------------------------------
(* The application: App, OfflineIndicator and ConverterForm together *)

FormInstance == "ConverterForm"

\* the sequence without its k-th element
RemoveAt(q, k) == [j \in 1..(Len(q) - 1) |-> IF j < k THEN q[j] ELSE q[j + 1]]

\* a step of the application records what was called, with what and what
\* it returned, not the state it found: properties of these steps are
\* stated on the step itself
NotRecorded == EmptyStorage

AppCall(op, args, ret) == Call(op, args, now, NotRecorded, ret)

\* a full-table fetch in flight: its base currency and, as bookkeeping,
\* whether a fetch issued after it has already saved its table
TableFetch(baseCurrency) == [baseCurrency |-> baseCurrency, overtaken |-> FALSE]

\* the fetches in flight once the k-th has settled; saved tells whether it
\* saved its table
Settled(q, k, saved) ==
    RemoveAt([j \in 1..Len(q) |->
                 IF j < k /\ saved THEN [q[j] EXCEPT !.overtaken = TRUE] ELSE q[j]], k)

\* the page is opened: the first render (OfflineIndicator, then
\* ConverterForm), then App's load effect and save effect, which still
\* sees the empty initial history
AppMount ==
    /\ app.phase = "down"
    /\ LET hI  == useNetworkStatus(localStorage, navigatorOnLine)
           st1 == RenderIndicator(localStorage, now)
           hF  == useNetworkStatus(st1, navigatorOnLine)
           l   == LoadHistory(st1)
       IN  /\ hooks' = [i \in Instances |-> IF i = Indicator THEN hI ELSE hF]
           /\ localStorage' = SaveHistory(l.st, <<>>)
           /\ app' = [phase  |-> IF l.loaded.isNull THEN "running" ELSE "started",
                      loaded |-> l.loaded]
    /\ form' = FormAtMount
    /\ conversionHistory' = <<>>
    /\ tableFetches' = <<>>
    /\ last' = AppCall("App.mount", NoArgs, Null)
    /\ UNCHANGED <<now, navigatorOnLine>>

\* the render that setConversionHistory(parsedHistory) asked for, and the
\* save effect after it
AppRerender ==
    /\ app.phase = "started"
    /\ conversionHistory' = app.loaded.v
    /\ localStorage' = SaveHistory(RenderIndicator(localStorage, now), app.loaded.v)
    /\ app' = [phase |-> "running", loaded |-> Null]
    /\ last' = AppCall("App.rerender", NoArgs, Null)
    /\ UNCHANGED <<now, ctrlVars, form, tableFetches>>

\* the page is closed or reloaded: what is in memory and in flight is gone
PageReload ==
    /\ app.phase # "down"
    /\ hooks' = [i \in Instances |-> Unmounted]
    /\ form' = FormAtMount
    /\ conversionHistory' = <<>>
    /\ tableFetches' = <<>>
    /\ app' = AppDown
    /\ last' = AppCall("reload", NoArgs, Null)
    /\ UNCHANGED <<localStorage, now, navigatorOnLine>>

\* what a step of getExchangeRate leaves: the form's state, the record
\* handed to addToHistory (App then renders again and saves), the
\* full-table fetch it started
Settle(r) ==
    /\ form' = r.form
    /\ conversionHistory' = IF r.added.isNull THEN conversionHistory
                            ELSE addToHistory(conversionHistory, r.added.v)
    /\ localStorage' = IF r.added.isNull THEN r.st
                       ELSE SaveHistory(RenderIndicator(r.st, now),
                                        addToHistory(conversionHistory, r.added.v))
    /\ tableFetches' = IF r.fetch.isNull THEN tableFetches
                       ELSE Append(tableFetches, TableFetch(r.fetch.v))

\* the user submits the form (the button is disabled while loading)
HandleFormSubmit ==
    /\ app.phase = "running"
    /\ ~form.isLoading
    /\ Len(conversionHistory) < MaxHistory
    /\ Len(tableFetches) < MaxTableFetches
    /\ \E amount \in Amounts, pair \in FormPairs :
           LET r == getExchangeRate(form, hooks[FormInstance].isOfflineMode, localStorage,
                                    now, amount, pair[1], pair[2])
           IN  /\ Settle(r)
               /\ last' = AppCall("handleFormSubmit",
                                  [amount |-> amount, fromCurrency |-> pair[1],
                                   toCurrency |-> pair[2]], Null)
    /\ UNCHANGED <<now, ctrlVars, app>>

\* the same, while the history has room for one conversion more than the
\* application with its cache and controller keeps
HandleFormSubmitShortHistory ==
    /\ Len(conversionHistory) < MaxHistory - 1
    /\ HandleFormSubmit

\* the live pair fetch settles and getExchangeRate resumes
PairFetchSettles ==
    /\ form.request.active
    /\ \E response \in PairResponses :
           LET r == getExchangeRateResumes(form, localStorage, now, response)
           IN  /\ Settle(r)
               /\ last' = AppCall("pairFetch", [response |-> response], Null)
    /\ UNCHANGED <<now, ctrlVars, app>>

\* one of the full-table fetches in flight settles
FetchAndCacheAllRatesSettles ==
    /\ Len(tableFetches) > 0
    /\ \E k \in 1..Len(tableFetches), response \in TableResponses, d \in {0, 1} :
           LET r == fetchAndCacheAllRates(localStorage, response,
                                          tableFetches[k].baseCurrency, now, now + d)
           IN  /\ d = 1 => CanJitter
               /\ localStorage' = r.st
               /\ now' = now + d
               /\ tableFetches' = Settled(tableFetches, k, r.ret)
               /\ last' = AppCall("fetchAndCacheAllRates",
                                  [fetch |-> tableFetches[k], response |-> response],
                                  Val(r.ret))
    /\ UNCHANGED <<ctrlVars, form, conversionHistory, app>>

\* the user clicks "Clear All" (shown while the history is not empty)
ClearHistory ==
    /\ app.phase = "running"
    /\ Len(conversionHistory) > 0
    /\ conversionHistory' = <<>>
    /\ localStorage' = SaveHistory(RenderIndicator(clear(localStorage), now), <<>>)
    /\ last' = AppCall("clearHistory", NoArgs, Null)
    /\ UNCHANGED <<now, ctrlVars, form, tableFetches, app>>

\* the storage after the listeners ran: OfflineIndicator renders again when
\* its hook state changed
AfterEvent(r) ==
    IF hooks[Indicator].mounted /\ r.hooks[Indicator] # hooks[Indicator]
    THEN RenderIndicator(r.st, now)
    ELSE r.st

WindowOffline ==
    /\ navigatorOnLine
    /\ navigatorOnLine' = FALSE
    /\ LET r == DispatchOffline(localStorage, hooks, 1)
       IN  /\ localStorage' = AfterEvent(r)
           /\ hooks' = r.hooks
    /\ last' = AppCall("window.offline", NoArgs, Null)
    /\ UNCHANGED <<now, appVars>>

WindowOnline ==
    /\ ~navigatorOnLine
    /\ navigatorOnLine' = TRUE
    /\ LET r == DispatchOnline(localStorage, hooks, 1)
       IN  /\ localStorage' = AfterEvent(r)
           /\ hooks' = r.hooks
    /\ last' = AppCall("window.online", NoArgs, Null)
    /\ UNCHANGED <<now, appVars>>

\* the "Test Offline Mode" button of the details panel (shown while
\* isOnline && !isOfflineMode)
ClickToggleOfflineMode ==
    /\ app.phase = "running"
    /\ hooks[Indicator].isOnline /\ ~hooks[Indicator].isOfflineMode
    /\ LET r == toggleOfflineMode(hooks[Indicator], localStorage)
       IN  /\ localStorage' = RenderIndicator(r.st, now)
           /\ hooks' = [hooks EXCEPT ![Indicator] = r.hook]
           /\ last' = AppCall("click.toggleOfflineMode", NoArgs, r.ret)
    /\ UNCHANGED <<now, navigatorOnLine, appVars>>

\* the "Switch to Online" button of the details panel (shown while
\* isOnline && isOfflineMode)
ClickExitOfflineMode ==
    /\ app.phase = "running"
    /\ hooks[Indicator].isOnline /\ hooks[Indicator].isOfflineMode
    /\ LET r == exitOfflineMode(hooks[Indicator], localStorage)
       IN  /\ localStorage' = RenderIndicator(r.st, now)
           /\ hooks' = [hooks EXCEPT ![Indicator] = r.hook]
           /\ last' = AppCall("click.exitOfflineMode", NoArgs, r.ret)
    /\ UNCHANGED <<now, navigatorOnLine, appVars>>

\* the "Clear Cache" button of the details panel (shown while
\* cacheInfo.hasCache), confirmed: the cache is cleared and the panel is
\* closed, which renders OfflineIndicator again
HandleClearCache ==
    /\ app.phase = "running"
    /\ getCacheInfo(localStorage, now, now).ret.hasCache
    /\ localStorage' = RenderIndicator(clearCache(localStorage).st, now)
    /\ last' = AppCall("handleClearCache", NoArgs, Null)
    /\ UNCHANGED <<now, ctrlVars, appVars>>

\* the application with its cache and its mode controller; one conversion
\* is kept in the history
NextApp ==
    \/ AppMount
    \/ AppRerender
    \/ PageReload
    \/ HandleFormSubmitShortHistory
    \/ PairFetchSettles
    \/ FetchAndCacheAllRatesSettles
    \/ ClearHistory
    \/ WindowOffline
    \/ WindowOnline
    \/ ClickToggleOfflineMode
    \/ ClickExitOfflineMode
    \/ HandleClearCache

SpecApp == Init /\ [][NextApp]_vars

\* the application while it stays connected and the user leaves the mode
\* alone: conversions, full-table fetches, the history, restarts
NextConnected ==
    \/ AppMount
    \/ AppRerender
    \/ PageReload
    \/ HandleFormSubmit
    \/ PairFetchSettles
    \/ FetchAndCacheAllRatesSettles
    \/ ClearHistory

SpecConnected == Init /\ [][NextConnected]_vars

\* a submit event reaches handleFormSubmit while a conversion is loading
\* (the button is disabled then; a dispatched submit event is not held
\* back by it): getExchangeRate is called on the loading form
HandleFormSubmitWhileLoading ==
    /\ app.phase = "running"
    /\ form.isLoading
    /\ \E amount \in Amounts, pair \in FormPairs :
           LET r == getExchangeRate(form, hooks[FormInstance].isOfflineMode, localStorage,
                                    now, amount, pair[1], pair[2])
           IN  /\ Settle(r)
               /\ last' = AppCall("handleFormSubmit",
                                  [amount |-> amount, fromCurrency |-> pair[1],
                                   toCurrency |-> pair[2]], Null)
    /\ UNCHANGED <<now, ctrlVars, app>>

\* conversions while the network comes and goes, and submit events while a
\* conversion is loading
NextLoading ==
    \/ AppMount
    \/ AppRerender
    \/ PageReload
    \/ HandleFormSubmit
    \/ HandleFormSubmitWhileLoading
    \/ PairFetchSettles
    \/ FetchAndCacheAllRatesSettles
    \/ ClearHistory
    \/ WindowOffline
    \/ WindowOnline

SpecLoading == Init /\ [][NextLoading]_vars

---------------------------------------------------------------------------
(* Vocabulary of the properties *)

\* the storage holds a snapshot text and a numeric last-update value
StoredSnapshot(st) ==
    /\ CACHE_KEY \in DOMAIN st
    /\ LAST_UPDATE_KEY \in DOMAIN st
    /\ st[CACHE_KEY].syntax = "ok"
    /\ ~parseInt(st[LAST_UPDATE_KEY]).isNaN

\* the capture time the cache keeps for the expiry check
CapturedAt(st) == parseInt(st[LAST_UPDATE_KEY]).n

\* at time t the stored snapshot is older than the 24-hour window
Expired(st, t) == StoredSnapshot(st) /\ t - CapturedAt(st) > maxAge

\* at time t the stored snapshot is inside the 24-hour window
Unexpired(st, t) == StoredSnapshot(st) /\ t - CapturedAt(st) <= maxAge

\* a number is a positive finite rate
IsPositive(x) == x[1] > 0 /\ x[2] > 0

CacheKeys == {CACHE_KEY, LAST_UPDATE_KEY, OFFLINE_STATUS_KEY}

\* the last call was getCachedRate(from, to) and it found an unexpired
\* snapshot, which getCachedRates returns as LoadedSnapshot
RateQueried ==
    /\ last.op = "getCachedRate"
    /\ Unexpired(last.pre, last.at)

LoadedSnapshot == getCachedRates(last.pre, last.at).ret.v

\* the codes stored in a table with a non-zero value
NonZeroKeys(rates) == {c \in DOMAIN rates : rates[c][1] # 0}

\* the times, from the current one on, at which a later call may be made
LaterTimes == {now, now + 1, now + maxAge, now + maxAge + 1}

---------------------------------------------------------------------------
(* C1 *)

\* C1 (as stated): for an unexpired snapshot with base B and every code X
\* stored with a positive value, getCachedRate(B, X) returns rates[X] and
\* getCachedRate(X, B) returns 1 / rates[X].
C1_AsStated ==
    RateQueried =>
        LET cache == LoadedSnapshot
            B == cache.baseCurrency
        IN  \A X \in DOMAIN cache.rates :
                IsPositive(cache.rates[X]) =>
                    /\ (last.args.fromCurrency = B /\ last.args.toCurrency = X)
                          => last.ret = Val(cache.rates[X])
                    /\ (last.args.fromCurrency = X /\ last.args.toCurrency = B)
                          => last.ret = Val(Divide(One, cache.rates[X]))

\* C1 (amended): for an unexpired snapshot with base B and every code X
\* stored with a positive value, getCachedRate(B, X) returns rates[X], and
\* getCachedRate(X, B) returns 1 / rates[X] when X differs from B; when the
\* table lists B itself, getCachedRate(B, B) returns rates[B].
C1_DirectAndInverse ==
    RateQueried =>
        LET cache == LoadedSnapshot
            B == cache.baseCurrency
        IN  \A X \in DOMAIN cache.rates :
                IsPositive(cache.rates[X]) =>
                    /\ (last.args.fromCurrency = B /\ last.args.toCurrency = X)
                          => last.ret = Val(cache.rates[X])
                    /\ (last.args.fromCurrency = X /\ last.args.toCurrency = B /\ X # B)
                          => last.ret = Val(Divide(One, cache.rates[X]))

\* an inverse rate was returned, and it differs from the stored rate
C1_Witness ==
    /\ RateQueried
    /\ last.args.toCurrency = LoadedSnapshot.baseCurrency
    /\ last.args.fromCurrency # last.args.toCurrency
    /\ last.args.fromCurrency \in DOMAIN LoadedSnapshot.rates
    /\ IsPositive(LoadedSnapshot.rates[last.args.fromCurrency])
    /\ last.ret = Val(Divide(One, LoadedSnapshot.rates[last.args.fromCurrency]))
    /\ last.ret # Val(LoadedSnapshot.rates[last.args.fromCurrency])

---------------------------------------------------------------------------
(* C2 *)

\* C2 (as stated): for an unexpired snapshot with base B and X, Y both
\* keys of rates and both different from B, getCachedRate(X, Y) returns
\* rates[Y] / rates[X].
C2_AsStated ==
    RateQueried =>
        LET cache == LoadedSnapshot
            X == last.args.fromCurrency
            Y == last.args.toCurrency
        IN  (/\ X \in DOMAIN cache.rates /\ Y \in DOMAIN cache.rates
             /\ X # cache.baseCurrency /\ Y # cache.baseCurrency)
               => last.ret = Val(Divide(cache.rates[Y], cache.rates[X]))

\* C2 (amended): for an unexpired snapshot with base B and X, Y both keys
\* of rates with a non-zero value and both different from B,
\* getCachedRate(X, Y) returns rates[Y] / rates[X], which is 1 when X = Y.
C2_CrossRate ==
    RateQueried =>
        LET cache == LoadedSnapshot
            X == last.args.fromCurrency
            Y == last.args.toCurrency
        IN  (/\ X \in NonZeroKeys(cache.rates) /\ Y \in NonZeroKeys(cache.rates)
             /\ X # cache.baseCurrency /\ Y # cache.baseCurrency)
               => /\ last.ret = Val(Divide(cache.rates[Y], cache.rates[X]))
                  /\ X = Y => last.ret = Val(One)

\* a cross rate between two different non-base codes was returned
C2_Witness ==
    /\ RateQueried
    /\ last.args.fromCurrency # last.args.toCurrency
    /\ {last.args.fromCurrency, last.args.toCurrency} \subseteq NonZeroKeys(LoadedSnapshot.rates)
    /\ LoadedSnapshot.baseCurrency \notin {last.args.fromCurrency, last.args.toCurrency}
    /\ ~last.ret.isNull
    /\ last.ret # Val(One)

---------------------------------------------------------------------------
(* C3 *)

\* the last call was getCachedRate or hasRate
PairQueried == last.op \in {"getCachedRate", "hasRate"}

\* the last getCachedRate returned null, or the last hasRate returned false
Missed == IF last.op = "hasRate" THEN ~last.ret ELSE last.ret.isNull

\* no snapshot is available to the call: getCachedRates returns null
NoSnapshot == getCachedRates(last.pre, last.at).ret.isNull

\* one of the three resolution cases applies to (from, to), a code
\* counting as stored when it is in keys
CaseApplies(keys, B, from, to) ==
    \/ (from = B /\ to \in keys)
    \/ (to = B /\ from \in keys)
    \/ (from \in keys /\ to \in keys)

\* C3 (as stated): the result is absent whenever there is no snapshot or
\* none of the three resolution cases applies to the keys of rates, and
\* hasRate is false in exactly those cases.
C3_AsStated ==
    PairQueried =>
        (Missed <=>
            \/ NoSnapshot
            \/ ~CaseApplies(DOMAIN LoadedSnapshot.rates, LoadedSnapshot.baseCurrency,
                            last.args.fromCurrency, last.args.toCurrency))

\* C3 (amended): the result is absent, and hasRate is false, exactly when
\* there is no unexpired snapshot or none of the three resolution cases
\* applies, a code counting as a key of rates only when its stored value
\* is not zero.
C3_MissExactly ==
    PairQueried =>
        (Missed <=>
            \/ NoSnapshot
            \/ ~CaseApplies(NonZeroKeys(LoadedSnapshot.rates), LoadedSnapshot.baseCurrency,
                            last.args.fromCurrency, last.args.toCurrency))

\* hasRate reported a miss on an unexpired snapshot for a code it lacks
C3_Witness ==
    /\ last.op = "hasRate"
    /\ ~last.ret
    /\ ~NoSnapshot
    /\ last.args.toCurrency \notin DOMAIN LoadedSnapshot.rates \cup {LoadedSnapshot.baseCurrency}

---------------------------------------------------------------------------
(* C4 *)

\* C4: whatever table was saved, getCachedRate never returns a zero or
\* negative rate and never the quotient of a division by zero.
C4_PositiveRate ==
    (last.op = "getCachedRate" /\ ~last.ret.isNull) => IsPositive(last.ret.v)

---------------------------------------------------------------------------
(* C5 *)

\* C5: after saveRatesToCache(rates, base), getCachedRates called at any
\* time up to 24 hours after the save returns a snapshot with the same
\* rates and baseCurrency and leaves the storage as it is; and every
\* getCachedRates call that finds a snapshot at most 24 hours old returns
\* what is stored and removes nothing.
C5_RoundTrip ==
    /\ last.op = "saveRatesToCache" =>
          \A t \in {now, now + 1, last.at + maxAge} :
              LET r == getCachedRates(localStorage, t)
              IN  /\ ~r.ret.isNull
                  /\ r.ret.v.rates = last.args.ratesData
                  /\ r.ret.v.baseCurrency = last.args.baseCurrency
                  /\ r.st = localStorage
    /\ (last.op = "getCachedRates" /\ Unexpired(last.pre, last.at)) =>
          /\ last.ret = Val(JSON_parse(last.pre[CACHE_KEY]).obj)
          /\ localStorage = last.pre

\* getCachedRates returned the snapshot when it was exactly 24 hours old
C5_Witness ==
    /\ last.op = "getCachedRates"
    /\ StoredSnapshot(last.pre)
    /\ last.at - CapturedAt(last.pre) = maxAge
    /\ ~last.ret.isNull
    /\ DOMAIN last.ret.v.rates # {}

---------------------------------------------------------------------------
(* C6 *)

\* C6: after a saveRatesToCache(r2, b2) the stored snapshot is exactly
\* (r2, b2), whatever was stored before, and getCachedRate returns a rate
\* only for codes of r2 or b2.
C6_SingleSnapshot ==
    last.op = "saveRatesToCache" =>
        LET r == getCachedRates(localStorage, now)
        IN  /\ ~r.ret.isNull
            /\ r.ret.v.rates = last.args.ratesData
            /\ r.ret.v.baseCurrency = last.args.baseCurrency
            /\ \A f \in Codes, t \in Codes :
                   ~getCachedRate(localStorage, now, f, t).ret.isNull
                       => {f, t} \subseteq DOMAIN last.args.ratesData \cup {last.args.baseCurrency}

\* a save replaced an unexpired snapshot of another base currency that
\* held a code the new table and base do not have
C6_Witness ==
    /\ last.op = "saveRatesToCache"
    /\ Unexpired(last.pre, last.at)
    /\ LoadedSnapshot.baseCurrency # last.args.baseCurrency
    /\ \E c \in DOMAIN LoadedSnapshot.rates :
           c \notin DOMAIN last.args.ratesData \cup {last.args.baseCurrency}

---------------------------------------------------------------------------
(* C7 *)

---------------------------------------------------------------------------
(* C8 *)

\* C8: a getCachedRates call that finds the snapshot older than 24 hours
\* leaves none of the three keys in storage; the passing of time alone
\* changes nothing in storage.
C8_PurgeOnRead ==
    /\ (last.op = "getCachedRates" /\ Expired(last.pre, last.at)) =>
          DOMAIN localStorage \cap CacheKeys = {}
    /\ last.op = "Tick" => localStorage = last.pre

\* the expired read found all three keys stored
C8_Witness ==
    /\ last.op = "getCachedRates"
    /\ Expired(last.pre, last.at)
    /\ CacheKeys \subseteq DOMAIN last.pre
    /\ DOMAIN localStorage = {}

---------------------------------------------------------------------------
(* C9 *)

\* the stored data is corrupt: the snapshot value is not JSON, or the
\* last-update value is not a number
Corrupt(st) ==
    /\ CACHE_KEY \in DOMAIN st
    /\ LAST_UPDATE_KEY \in DOMAIN st
    /\ \/ st[CACHE_KEY].syntax # "ok"
       \/ parseInt(st[LAST_UPDATE_KEY]).isNaN

\* C9: a getCachedRates call that finds corrupt data returns null and
\* leaves none of the three keys in storage.
C9_CorruptIsPurged ==
    (last.op = "getCachedRates" /\ Corrupt(last.pre)) =>
        /\ last.ret.isNull
        /\ DOMAIN localStorage \cap CacheKeys = {}

---------------------------------------------------------------------------
(* C10 *)

\* C10: after clearCache, whatever was stored, getCachedRates returns
\* null, getCacheInfo reports hasCache = false and getCachedRate returns
\* null for every pair, now and at any later time.
C10_ClearThenLoad ==
    last.op = "clearCache" =>
        \A t \in LaterTimes :
            /\ getCachedRates(localStorage, t).ret.isNull
            /\ ~getCacheInfo(localStorage, t, t).ret.hasCache
            /\ \A f \in Codes, c \in Codes :
                   getCachedRate(localStorage, t, f, c).ret.isNull

\* clearCache ran on a storage that held an unexpired snapshot
C10_Witness ==
    /\ last.op = "clearCache"
    /\ Unexpired(last.pre, last.at)
    /\ OFFLINE_STATUS_KEY \in DOMAIN last.pre

---------------------------------------------------------------------------
(* C11 *)

\* C11: clearCache leaves none of the snapshot key, the last-update key
\* and the offline-mode key in storage, so that getOfflineStatus returns
\* false afterwards, and a second clearCache changes nothing more.
C11_ClearRemovesAll ==
    last.op = "clearCache" =>
        /\ DOMAIN localStorage \cap CacheKeys = {}
        /\ ~getOfflineStatus(localStorage).ret
        /\ clearCache(localStorage).st = localStorage

\* clearCache ran while all three keys were stored and the flag was true
C11_Witness ==
    /\ last.op = "clearCache"
    /\ CacheKeys \subseteq DOMAIN last.pre
    /\ getOfflineStatus(last.pre).ret
    /\ DOMAIN localStorage = {}

---------------------------------------------------------------------------
(* C12 *)

\* C12: a getCacheInfo call leaves the storage as it found it, also when
\* the stored snapshot is expired.
C12_InfoIsPure ==
    last.op = "getCacheInfo" => localStorage = last.pre

---------------------------------------------------------------------------
(* C13 *)

\* C13: a saveRatesToCache call during which a storage write fails returns
\* without throwing and leaves the stored snapshot and the stored
\* last-update value as they were.
C13_FailedSaveIsNoOp ==
    (last.op = "saveRatesToCache" /\ last.fail # 0) =>
        /\ ~last.threw
        /\ getItem(localStorage, CACHE_KEY) = getItem(last.pre, CACHE_KEY)
        /\ getItem(localStorage, LAST_UPDATE_KEY) = getItem(last.pre, LAST_UPDATE_KEY)

---------------------------------------------------------------------------
(* C14 *)

\* C14: no method of the cache manager raises to its caller, whether a
\* storage call fails or the stored data is corrupt; when a storage call
\* fails the reads return their absent result.
C14_NeverRaises ==
    /\ ~last.threw
    /\ last.fail # 0 =>
          /\ last.op \in {"getCachedRates", "getCachedRate"} => last.ret.isNull
          /\ last.op \in {"hasRate", "getOfflineStatus"} => ~last.ret

---------------------------------------------------------------------------
(* The connectivity mode controller: vocabulary *)

\* the persisted mode flag, as CacheManager.getOfflineStatus reads it
ModeFlag(st) == getOfflineStatus(st).ret

\* the spec's Online: connected and not in offline mode
InOnline(h) == h.mounted /\ h.isOnline /\ ~h.isOfflineMode

\* the spec's OfflineManual: in offline mode while connected
InOfflineManual(h) == h.mounted /\ h.isOnline /\ h.isOfflineMode

\* what the last controller step found, and what the step before it found
Before == last.pre.cur

TwoBefore == last.pre.prev

\* C15: when a controller is in Online and the network-lost event fires,
\* it moves to offline mode (isOnline false, isOfflineMode true) and the
\* persisted mode flag becomes true
C15_NetworkLost ==
    last.op = "NetworkLost" =>
        \A i \in Instances :
            InOnline(Before.hooks[i]) =>
                /\ ~hooks[i].isOnline
                /\ hooks[i].isOfflineMode
                /\ ModeFlag(localStorage)

C15_Witness ==
    /\ last.op = "NetworkLost"
    /\ InOnline(Before.hooks[Indicator])
    /\ ~ModeFlag(Before.localStorage)
    /\ ModeFlag(localStorage)

\* C16: starting in Online with the mode flag false and no user toggle, a
\* network-lost event followed by a network-restored event returns the
\* controller to Online (isOfflineMode false) and resets the persisted
\* mode flag to false
C16_AutoRecovery ==
    (/\ last.op = "NetworkRestored"
     /\ last.pre.prevOp = "NetworkLost") =>
        \A i \in Instances :
            (InOnline(TwoBefore.hooks[i]) /\ ~ModeFlag(TwoBefore.localStorage)) =>
                /\ InOnline(hooks[i])
                /\ ~ModeFlag(localStorage)

\* C17: auto-recovery does not override a manual choice: with the persisted
\* flag true, the network-restored event leaves isOfflineMode and the flag
\* as they were; the decision is made from the persisted flag, so with the
\* flag not true the event ends offline mode whatever the in-memory mode was
C17_ManualChoiceKept ==
    last.op = "NetworkRestored" =>
        /\ localStorage = Before.localStorage
        /\ \A i \in Instances :
              Before.hooks[i].mounted =>
                  /\ hooks[i].isOnline
                  /\ hooks[i].isOfflineMode =
                        IF ModeFlag(Before.localStorage)
                        THEN Before.hooks[i].isOfflineMode
                        ELSE FALSE

\* the user enabled offline mode while connected, the network was lost and
\* is restored
C17_Witness ==
    /\ last.op = "NetworkRestored"
    /\ last.pre.prevOp = "NetworkLost"
    /\ InOfflineManual(TwoBefore.hooks[Indicator])
    /\ ModeFlag(TwoBefore.localStorage)
    /\ InOfflineManual(hooks[Indicator])
    /\ ModeFlag(localStorage)

\* C18: toggleOfflineMode invoked in Online sets isOfflineMode true and
\* persists the flag true; invoked in OfflineManual it sets isOfflineMode
\* false and persists the flag false; after any toggle the in-memory mode
\* of the toggling controller equals the persisted flag
C18_Toggle ==
    last.op = "toggleOfflineMode" =>
        /\ InOnline(Before.hooks[Indicator]) =>
              /\ hooks[Indicator].isOfflineMode
              /\ getItem(localStorage, OFFLINE_STATUS_KEY) = Val("true")
        /\ InOfflineManual(Before.hooks[Indicator]) =>
              /\ ~hooks[Indicator].isOfflineMode
              /\ getItem(localStorage, OFFLINE_STATUS_KEY) = Val("false")
        /\ hooks[Indicator].isOfflineMode = ModeFlag(localStorage)
        /\ hooks[Indicator].isOnline = Before.hooks[Indicator].isOnline

\* a toggle out of OfflineManual, which a toggle had entered from Online
C18_Witness ==
    /\ last.op = "toggleOfflineMode"
    /\ last.pre.prevOp = "toggleOfflineMode"
    /\ InOnline(TwoBefore.hooks[Indicator])
    /\ InOfflineManual(Before.hooks[Indicator])
    /\ InOnline(hooks[Indicator])
    /\ ~ModeFlag(localStorage)

\* C19: exitOfflineMode takes effect only while the connectivity signal
\* reports connected: then it sets isOfflineMode false and the persisted
\* flag false; when disconnected it leaves isOnline, isOfflineMode and the
\* persisted mode flag unchanged
C19_ExitOnlyWhenConnected ==
    last.op = "exitOfflineMode" =>
        IF Before.navigatorOnLine
        THEN /\ ~hooks[Indicator].isOfflineMode
             /\ hooks[Indicator].isOnline
             /\ getItem(localStorage, OFFLINE_STATUS_KEY) = Val("false")
        ELSE /\ hooks = Before.hooks
             /\ localStorage = Before.localStorage

\* an exit requested while disconnected and in offline mode
C19_Witness ==
    /\ last.op = "exitOfflineMode"
    /\ ~Before.navigatorOnLine
    /\ Before.hooks[Indicator].isOfflineMode
    /\ ModeFlag(Before.localStorage)
    /\ hooks[Indicator].isOfflineMode
    /\ ModeFlag(localStorage)

\* C20: a rejected exit-offline request is reported to the caller: the
\* result of exitOfflineMode when disconnected differs from its result
\* when the exit was applied
C20_RejectionReported ==
    (last.op = "exitOfflineMode" /\ ~Before.hooks[Indicator].isOnline) =>
        last.ret # exitOfflineMode([Before.hooks[Indicator] EXCEPT !.isOnline = TRUE],
                                   Before.localStorage).ret

\* C21: at startup isOfflineMode equals the persisted flag (false when the
\* key is absent) and isOnline equals the connectivity signal; with the flag
\* true and connectivity false the controller starts in offline mode and an
\* exitOfflineMode call changes nothing
C21_Startup ==
    last.op = "Mount" =>
        LET h == hooks[last.args.instance]
        IN  /\ h.isOfflineMode = ModeFlag(localStorage)
            /\ (getItem(localStorage, OFFLINE_STATUS_KEY).isNull => ~h.isOfflineMode)
            /\ h.isOnline = navigatorOnLine
            /\ (ModeFlag(localStorage) /\ ~navigatorOnLine) =>
                  /\ h.isOfflineMode /\ ~h.isOnline
                  /\ exitOfflineMode(h, localStorage).hook = h
                  /\ exitOfflineMode(h, localStorage).st = localStorage

\* a start with the flag stored as true while disconnected
C21_Witness ==
    /\ last.op = "Mount"
    /\ ModeFlag(localStorage)
    /\ ~navigatorOnLine
    /\ hooks[last.args.instance].isOfflineMode
    /\ ~hooks[last.args.instance].isOnline

---------------------------------------------------------------------------
(* The cache again: the two capture times, the base against itself *)

\* C28: whenever a snapshot is stored, the last-update key is stored too and
\* its value equals the timestamp field inside the snapshot
C28_LastUpdateIsTimestamp ==
    (CACHE_KEY \in DOMAIN localStorage /\ localStorage[CACHE_KEY].syntax = "ok") =>
        /\ LAST_UPDATE_KEY \in DOMAIN localStorage
        /\ parseInt(localStorage[LAST_UPDATE_KEY]) =
              Num(JSON_parse(localStorage[CACHE_KEY]).obj.timestamp)

\* the base currency of the loaded snapshot was asked against itself
BaseAgainstItself ==
    /\ RateQueried
    /\ last.args.fromCurrency = LoadedSnapshot.baseCurrency
    /\ last.args.toCurrency = LoadedSnapshot.baseCurrency

\* C29 (as stated): getCachedRate(from, to) with from == to == baseCurrency
\* returns absent
C29_AsStated == BaseAgainstItself => last.ret.isNull

\* C29 (amended): getCachedRate(B, B) for the base B of the snapshot returns
\* rates[B] when the table lists B with a non-zero value (the first case
\* matches), and absent only when it does not
C29_BaseAgainstItself ==
    BaseAgainstItself =>
        last.ret = IF HasTruthy(LoadedSnapshot.rates, LoadedSnapshot.baseCurrency)
                   THEN Val(LoadedSnapshot.rates[LoadedSnapshot.baseCurrency])
                   ELSE Null

\* the base was asked against itself on a table that lists it
C29_Witness ==
    /\ BaseAgainstItself
    /\ LoadedSnapshot.baseCurrency \in DOMAIN LoadedSnapshot.rates
    /\ last.ret = Val(One)

---------------------------------------------------------------------------
(* The application: vocabulary *)

\* the application shows offline mode: some mounted controller has
\* isOfflineMode true
InOfflineMode == \E i \in Instances : hooks[i].mounted /\ hooks[i].isOfflineMode

\* the two texts that show a converted amount, and the two error texts
ConversionTexts == {"rate", "cached"}
ErrorTexts == {"noCached", "wrong"}

\* the history kept under the history key
StoredHistory(st) ==
    IF HISTORY_KEY \in DOMAIN st /\ ~History_parse(st[HISTORY_KEY]).threw
    THEN History_parse(st[HISTORY_KEY]).obj
    ELSE <<>>

\* C22: whenever the application is in offline mode, by network loss or by
\* user toggle, a conversion attempt issues no live fetch: it ends at once,
\* with a result from getCachedRate or with the 'no cached rate' error
C22_OfflineModeUsesCache ==
    (last.op = "handleFormSubmit" /\ InOfflineMode) =>
        /\ ~form.request.active
        /\ ~form.isLoading
        /\ form.result.kind \in {"cached", "noCached"}

\* C23: when the form is not in offline mode and the live pair fetch fails
\* (it rejects, or the response is not ok), the conversion falls back to
\* getCachedRate(from, to): if a rate is cached the result is computed from
\* it and marked as cached, otherwise the conversion ends with an error
\* message and no result; no full-table fetch is started
C23_FallbackToCache ==
    [][(last'.op = "pairFetch" /\ PairFailed(last'.args.response)) =>
          LET q == form.request
              r == getCachedRate(localStorage, now, q.fromCurrency, q.toCurrency)
          IN  /\ ~form'.isLoading
              /\ tableFetches' = tableFetches
              /\ IF ~r.ret.isNull
                 THEN /\ form'.result =
                            ResultText("cached", Val(toFixed2(r.ret, q.amount)))
                      /\ Len(conversionHistory') = Len(conversionHistory) + 1
                      /\ conversionHistory'[1].isFromCache
                      /\ conversionHistory'[1].result = toFixed2(r.ret, q.amount)
                 ELSE /\ form'.result.kind \in ErrorTexts
                      /\ form'.result.converted.isNull
                      /\ conversionHistory' = conversionHistory]_vars

\* a failed live fetch was answered from the cache
C23_Witness ==
    /\ last.op = "pairFetch"
    /\ PairFailed(last.args.response)
    /\ form.result.kind = "cached"
    /\ conversionHistory[1].isFromCache

\* the full-table response is one that fetchAndCacheAllRates saves: the
\* fetch resolved, the response is ok, its result is 'success' and it
\* carries a rate table
GoodTable(response) ==
    /\ ~response.rejected
    /\ response.ok
    /\ response.result = "success"
    /\ ~response.conversion_rates.isNull

\* the step wrote the snapshot or the last-update value
CacheWritten ==
    \E k \in {CACHE_KEY, LAST_UPDATE_KEY} :
        /\ k \in DOMAIN localStorage'
        /\ getItem(localStorage', k) # getItem(localStorage, k)

C25_LastWriterWins ==
    (last.op = "fetchAndCacheAllRates" /\ last.ret.v) =>
        /\ CACHE_KEY \in DOMAIN localStorage
        /\ ~JSON_parse(localStorage[CACHE_KEY]).threw
        /\ JSON_parse(localStorage[CACHE_KEY]).obj.rates =
              last.args.response.conversion_rates.v
        /\ JSON_parse(localStorage[CACHE_KEY]).obj.baseCurrency =
              last.args.fetch.baseCurrency
        /\ JSON_parse(localStorage[CACHE_KEY]).obj.timestamp = last.at
        /\ parseInt(localStorage[LAST_UPDATE_KEY]) = Num(now)

\* the fetch issued first saved its table after a fetch issued later had
\* saved its own
C25_Witness ==
    /\ last.op = "fetchAndCacheAllRates"
    /\ last.ret.v
    /\ last.args.fetch.overtaken
    /\ JSON_parse(localStorage[CACHE_KEY]).obj.rates = last.args.response.conversion_rates.v

\* the user actions of the application other than the cache clear
OtherUserActions ==
    {"handleFormSubmit", "pairFetch", "click.toggleOfflineMode",
     "click.exitOfflineMode", "clearHistory"}

\* C26: a stored, unexpired snapshot is deleted only by an explicit cache
\* clear or by expiry detection: converting, toggling or exiting offline
\* mode and clearing the conversion history remove neither the snapshot
\* nor the mode flag
C26_OnlyClearDeletes ==
    [][(Unexpired(localStorage, now) /\ last'.op \in OtherUserActions) =>
          /\ getItem(localStorage', CACHE_KEY) = getItem(localStorage, CACHE_KEY)
          /\ getItem(localStorage', LAST_UPDATE_KEY) = getItem(localStorage, LAST_UPDATE_KEY)
          /\ (OFFLINE_STATUS_KEY \in DOMAIN localStorage
                 => OFFLINE_STATUS_KEY \in DOMAIN localStorage')]_vars

---------------------------------------------------------------------------
(* The controller's listeners *)

---------------------------------------------------------------------------
(* The conversion history *)

\* C30: conversion history is not lost across a restart: addToHistory puts
\* the newest conversion first, what is stored when the page is closed is
\* the history held, the startup sequence (load effect, then save effect)
\* never leaves the stored history shorter than it was, and the history
\* loaded at startup is the stored one
C30_HistoryKept ==
    [][/\ last'.op \in {"handleFormSubmit", "pairFetch"} =>
             \/ conversionHistory' = conversionHistory
             \/ /\ Tail(conversionHistory') = conversionHistory
                /\ StoredHistory(localStorage') = conversionHistory'
       /\ last'.op = "reload" => StoredHistory(localStorage) = conversionHistory
       /\ last'.op = "App.mount" =>
             Len(StoredHistory(localStorage')) >= Len(StoredHistory(localStorage))
       /\ last'.op = "App.rerender" =>
             /\ conversionHistory' = app.loaded.v
             /\ StoredHistory(localStorage') = conversionHistory']_vars

---------------------------------------------------------------------------
(* The status getCacheInfo reports *)

\* C35: the status returned by getCacheInfo satisfies isExpired == not
\* hasCache: it never reports hasCache = true together with isExpired =
\* true, and whenever hasCache is false the reported baseCurrency is absent
\* and rateCount is 0
C35_StatusConsistent ==
    last.op = "getCacheInfo" =>
        /\ last.ret.isExpired = ~last.ret.hasCache
        /\ ~last.ret.hasCache =>
              /\ last.ret.baseCurrency.isNull
              /\ last.ret.rateCount = 0

---------------------------------------------------------------------------
(* The controller's instances *)

\* C31: the controller exposes a single decision to all callers: after any
\* sequence of network events, toggleOfflineMode and exitOfflineMode calls,
\* the isOfflineMode seen by the conversion form equals the isOfflineMode
\* seen by the offline indicator
C31_SingleDecision ==
    (hooks[Indicator].mounted /\ hooks[FormInstance].mounted) =>
        hooks[FormInstance].isOfflineMode = hooks[Indicator].isOfflineMode

\* C32: in every reachable state a controller's in-memory isOfflineMode
\* equals the persisted mode flag; in particular after clearCache, or after
\* an expiry purge triggered by a cache read, the controller no longer
\* reports offline mode
C32_ModeIsFlag ==
    \A i \in Instances :
        hooks[i].mounted => hooks[i].isOfflineMode = ModeFlag(localStorage)

\* the live response carries a rate
LiveRate(response) == ~PairFailed(response) /\ ~response.conversion_rate.isNull

\* the form shows a conversion text with a number in it
ShowsNumericResult(f) ==
    /\ f.result.kind \in ConversionTexts
    /\ ~f.result.converted.isNull
    /\ f.result.converted.v.kind = "number"

\* C33: a record is added to the conversion history only when the
\* conversion obtained a rate (a rate in the live response, or a non-absent
\* cached rate); a conversion that ends in the error path, or whose live
\* response carries no rate, adds no record and shows no numeric result
C33_RecordOnlyWithRate ==
    [][/\ (last'.op = "pairFetch" /\ ~LiveRate(last'.args.response)) =>
              LET q == form.request
                  r == getCachedRate(localStorage, now, q.fromCurrency, q.toCurrency)
              IN  (PairFailed(last'.args.response) /\ ~r.ret.isNull)
                  \/ /\ conversionHistory' = conversionHistory
                     /\ ~ShowsNumericResult(form')
       /\ (last'.op = "handleFormSubmit" /\ Len(conversionHistory') > Len(conversionHistory)) =>
              /\ hooks[FormInstance].isOfflineMode
              /\ ~getCachedRate(localStorage, now, last'.args.fromCurrency,
                                last'.args.toCurrency).ret.isNull]_vars

\* C34: every conversion attempt that sets the loading state to true sets
\* it back to false, on every path, once the live fetch has resolved or
\* rejected: the loading state is set only while the live pair fetch is
\* awaited (the paths that do not await leave it false), and the step in
\* which that fetch settles clears it whatever the response is; a conversion
\* attempt made while loading starts no second fetch and changes nothing
C34_LoadingEnds ==
    [][/\ form'.isLoading <=> form'.request.active
       /\ (form'.isLoading /\ ~form.isLoading) =>
              (last'.op = "handleFormSubmit" /\ ~hooks[FormInstance].isOfflineMode)
       /\ last'.op = "pairFetch" => (form.isLoading /\ ~form'.isLoading)
       /\ (last'.op = "handleFormSubmit" /\ hooks[FormInstance].isOfflineMode) =>
              form'.isLoading = form.isLoading
       /\ (last'.op = "handleFormSubmit" /\ form.isLoading) =>
              /\ form' = form
              /\ tableFetches' = tableFetches
              /\ conversionHistory' = conversionHistory]_vars

\* a conversion that was loading has ended without a cached rate, with the
\* error text, and the form is ready again
C34_Witness ==
    /\ last.op = "pairFetch"
    /\ PairFailed(last.args.response)
    /\ form.result.kind = "wrong"
    /\ ~form.isLoading

===========================================================================
